---- MODULE Spec2Model ----
(***************************************************************************)
(* Weekly time-allocation tracker: the timesheet store (dbService), the    *)
(* user dashboard (UserDashboard) and the admin correction editor          *)
(* (AdminTimesheetEditor).                                                 *)
(*                                                                         *)
(* Units.  The program computes with JavaScript numbers.  Here every       *)
(* number of hours is an integer count of thousandths of an hour (40 h is  *)
(* 40000) and every number of leave days an integer count of thousandths   *)
(* of a day (half a day is 500), so that hours = days * 8 and              *)
(* hours = (percentage / 100) * available are exact for the inputs the     *)
(* model draws.  Percentages are whole numbers, as the inputs parse them.  *)
(*                                                                         *)
(* A Record<string, TimeEntry> is a function from the project ids it holds *)
(* to [percentage, days, hours]; the projectId field of a TimeEntry always *)
(* equals the key it is stored under and is the function's argument.       *)
(***************************************************************************)
EXTENDS Integers, Sequences, FiniteSets, TLC

VARIABLES
    db,         \* the rows of public.timesheets
    save,       \* per caller of dbService.saveTimesheet: the call in progress
    \* UserDashboard (one mounted dashboard, of user Owner)
    year, week,             \* useState: the selected week
    entries,                \* useState<Record<string, TimeEntry>>
    weeklyHoursTarget,      \* useState(40)
    saveStatus,             \* 'idle' | 'saving' | 'saved'
    isLoading,
    hasSubmittedData,
    prefilledFromPrev,
    preferredProjects,      \* prop, owned by App
    localHours,             \* localStorage engtrack_hours_<userId>, if set
    loads,                  \* the loadData calls in flight, oldest first
    timers,                 \* pending setTimeout(() => setSaveStatus('idle'))
    last,                   \* history: the operation that produced this state
    steps,                  \* history: the number of operations so far
    appliedFor,             \* history: the week of the load applied last
    written,                \* history: the row sets inserted so far
    calc,                   \* a call of the available-work-hours computations
    today,                  \* new Date() of the session: [year, week]
    ahead,                  \* history: handleNext steps less handlePrev steps
    bound,                  \* the bounds of the exploration, fixed by Init
    admin,                  \* AdminTimesheetEditor: its state
    analytics               \* AdminAnalytics: the catalog and the last report

storeVars == <<db, save>>

dashVars == <<year, week, entries, weeklyHoursTarget, saveStatus, isLoading,
              hasSubmittedData, prefilledFromPrev, preferredProjects,
              localHours, loads, timers, today, ahead, bound, admin,
              analytics>>

vars == <<db, save, year, week, entries, weeklyHoursTarget, saveStatus,
          isLoading, hasSubmittedData, prefilledFromPrev, preferredProjects,
          localHours, loads, timers, last, steps, appliedFor, written, calc,
          today, ahead, bound, admin, analytics>>

-----------------------------------------------------------------------------
(* Catalog *)

\* constants.ts LEAVE_PROJECTS
LEAVE_PROJECTS == {"vacation", "sick"}

\* The work projects of the model, taken from constants.ts PROJECTS
WorkProjects == {"new_dagger", "project_mgmt"}

Projects == WorkProjects \cup LEAVE_PROJECTS

\* LEAVE_PROJECTS.some(lp => lp.id === pid)
IsLeave(pid) == pid \in LEAVE_PROJECTS

ZeroEntry == [percentage |-> 0, days |-> 0, hours |-> 0]

\* {} as a Record<string, TimeEntry>
EmptyEntries == [p \in {} |-> ZeroEntry]

-----------------------------------------------------------------------------
(* The store: public.timesheets *)

Users == {"u1", "u2"}

\* The (year, week) pairs of the model: the last week of a year and the
\* first two of the next, so that week - 1 wraps across the year boundary.
Weeks == {<<2024, 52>>, <<2025, 1>>, <<2025, 2>>}

Key(u, y, w) == [user_id |-> u, year |-> y, week_number |-> w]

RowKey(r) == Key(r.user_id, r.year, r.week_number)

\* .eq('user_id', userId).eq('year', year).eq('week_number', week)
RowsOf(rows, k) == {r \in rows : RowKey(r) = k}

\* A column that drops the digits after the second decimal
Decimal52_Truncates(h) == (h \div 10) * 10

\* DECIMAL(5,2): a value is stored rounded to two decimals (half away from
\* zero; the values here are never negative).
Decimal52(h) == ((h + 5) \div 10) * 10

\* The rows saveTimesheet builds from its entries argument
RowsToInsert_NoFilter(k, es) ==
    {[user_id |-> k.user_id, year |-> k.year, week_number |-> k.week_number,
      project_id |-> p, hours |-> es[p].hours,
      percentage |-> es[p].percentage] : p \in DOMAIN es}

RowsToInsert(k, es) ==
    {[user_id |-> k.user_id, year |-> k.year, week_number |-> k.week_number,
      project_id |-> p, hours |-> es[p].hours,
      percentage |-> es[p].percentage] :
        p \in {q \in DOMAIN es : es[q].hours > 0 \/ es[q].percentage > 0}}

\* A row as the table holds it
Stored(r) == [r EXCEPT !.hours = Decimal52(r.hours)]

\* A constraint over whole rows: UNIQUE over every column
UniqueViolation_WholeRow(rows, new) ==
    \E r \in rows, n \in new : r = n

\* UNIQUE(user_id, year, week_number, project_id)
UniqueViolation(rows, new) ==
    \E r \in rows, n \in new :
        RowKey(r) = RowKey(n) /\ r.project_id = n.project_id

\* The callers of dbService.saveTimesheet: UserDashboard.handleSave (the
\* owner) and AdminTimesheetEditor.handleSave (an admin).
Savers == {"owner", "admin"}

NoResult == [success |-> FALSE, error |-> "none"]

IdleSave ==
    [pc |-> "idle", key |-> Key("u1", 2025, 1), entries |-> EmptyEntries,
     before |-> {}, afterDelete |-> "none", inserted |-> FALSE,
     result |-> NoResult]

Settled(c) == save[c].pc \in {"idle", "done"}

\* saveTimesheet is called: the delete request is on its way
SaveCall(c, k, es) ==
    /\ Settled(c)
    /\ save' = [save EXCEPT ![c] =
                  [pc |-> "delete", key |-> k, entries |-> es,
                   before |-> RowsOf(db, k), afterDelete |-> "none",
                   inserted |-> FALSE, result |-> NoResult]]
    /\ UNCHANGED db

\* The delete fails: the call returns without building or inserting rows
DeleteFailed_Inserts(c) ==
    /\ save[c].pc = "delete"
    /\ db' = (db \ RowsOf(db, save[c].key))
    /\ save' = [save EXCEPT ![c].pc = "insert", ![c].afterDelete = "failed"]

DeleteFailed(c) ==
    /\ save[c].pc = "delete"
    /\ db' = db
    /\ save' = [save EXCEPT
                  ![c].pc = "done",
                  ![c].afterDelete = "failed",
                  ![c].result = [success |-> FALSE,
                                 error |-> "Database permission error"]]

\* A delete filtered by user only: without .eq('year') and .eq('week_number')
DeleteDone_WholeUser(c) ==
    /\ save[c].pc = "delete"
    /\ db' = {r \in db : r.user_id # save[c].key.user_id}
    /\ IF RowsToInsert(save[c].key, save[c].entries) = {}
       THEN save' = [save EXCEPT ![c].pc = "done",
                                 ![c].afterDelete = "ok",
                                 ![c].result = [success |-> TRUE,
                                                error |-> "none"]]
       ELSE save' = [save EXCEPT ![c].pc = "insert",
                                 ![c].afterDelete = "ok"]

\* A delete that reports success and removes nothing
DeleteDone_KeepsRows(c) ==
    /\ save[c].pc = "delete"
    /\ db' = db
    /\ IF RowsToInsert(save[c].key, save[c].entries) = {}
       THEN save' = [save EXCEPT ![c].pc = "done",
                                 ![c].afterDelete = "ok",
                                 ![c].result = [success |-> TRUE,
                                                error |-> "none"]]
       ELSE save' = [save EXCEPT ![c].pc = "insert",
                                 ![c].afterDelete = "ok"]

\* The delete succeeds: the rows of the key are gone; with nothing to
\* insert the call returns success at once
DeleteDone(c) ==
    /\ save[c].pc = "delete"
    /\ db' = db \ RowsOf(db, save[c].key)
    /\ IF RowsToInsert(save[c].key, save[c].entries) = {}
       THEN save' = [save EXCEPT ![c].pc = "done",
                                 ![c].afterDelete = "ok",
                                 ![c].result = [success |-> TRUE,
                                                error |-> "none"]]
       ELSE save' = [save EXCEPT ![c].pc = "insert",
                                 ![c].afterDelete = "ok"]

\* The insert adds the rows without the table's UNIQUE constraint
InsertDone_NoUnique(c) ==
    LET new == {Stored(r) : r \in RowsToInsert(save[c].key, save[c].entries)}
    IN  /\ save[c].pc = "insert"
        /\ db' = db \cup new
        /\ save' = [save EXCEPT ![c].pc = "done", ![c].inserted = TRUE,
                                ![c].result = [success |-> TRUE,
                                               error |-> "none"]]

\* The insert is one statement: all rows are added, or none
InsertDone(c) ==
    LET new == {Stored(r) : r \in RowsToInsert(save[c].key, save[c].entries)}
    IN  /\ save[c].pc = "insert"
        /\ ~UniqueViolation(db, new)
        /\ db' = db \cup new
        /\ save' = [save EXCEPT ![c].pc = "done", ![c].inserted = TRUE,
                                ![c].result = [success |-> TRUE,
                                               error |-> "none"]]

\* A failed insert that puts back the rows the call deleted
InsertFailed_Restores(c, why) ==
    LET new == {Stored(r) : r \in RowsToInsert(save[c].key, save[c].entries)}
    IN  /\ save[c].pc = "insert"
        /\ why = "duplicate key" => UniqueViolation(db, new)
        /\ db' = db \cup save[c].before
        /\ save' = [save EXCEPT ![c].pc = "done", ![c].inserted = TRUE,
                                ![c].result = [success |-> FALSE,
                                               error |-> why]]

\* The insert fails: a constraint violation, or any other store error
InsertFailed(c, why) ==
    LET new == {Stored(r) : r \in RowsToInsert(save[c].key, save[c].entries)}
    IN  /\ save[c].pc = "insert"
        /\ why = "duplicate key" => UniqueViolation(db, new)
        /\ db' = db
        /\ save' = [save EXCEPT ![c].pc = "done", ![c].inserted = TRUE,
                                ![c].result = [success |-> FALSE,
                                               error |-> why]]

InsertErrors == {"duplicate key", "permission denied"}

-----------------------------------------------------------------------------
(* dbService.getTimesheet *)

RECURSIVE SumHours(_)
\* The sum of the hours of a finite set of records
SumHours(S) ==
    IF S = {} THEN 0
    ELSE LET x == CHOOSE y \in S : TRUE IN x.hours + SumHours(S \ {x})

RECURSIVE SumPercentage(_)
SumPercentage(S) ==
    IF S = {} THEN 0
    ELSE LET x == CHOOSE y \in S : TRUE
         IN  x.percentage + SumPercentage(S \ {x})

\* Rows of one project are merged by adding hours and percentages; a leave
\* project's days are its hours / 8.
GetTimesheet(rows, k) ==
    LET mine == RowsOf(rows, k)
        pids == {r.project_id : r \in mine}
        of(p) == {r \in mine : r.project_id = p}
    IN  [p \in pids |->
            [percentage |-> SumPercentage(of(p)),
             hours |-> SumHours(of(p)),
             days |-> IF IsLeave(p) THEN SumHours(of(p)) \div 8 ELSE 0]]

\* dbService.getSubmittedUserIds: the users with a row in the week
GetSubmittedUserIds(rows, y, w) ==
    {r.user_id : r \in {x \in rows : x.year = y /\ x.week_number = w}}

-----------------------------------------------------------------------------
(* dbService.getAnalyticsData and the missing-submission report *)

\* profiles: the team and the status of each user
TeamOf == [u \in {"u1", "u2", "u3"} |->
              IF u = "u2" THEN "t_project" ELSE "t_npd"]

StatusOf == [u \in {"u1", "u2", "u3"} |->
                IF u = "u3" THEN "inactive" ELSE "active"]

\* The projects table as seeded: id -> category
DefaultCatalog ==
    [p \in {"new_dagger", "project_mgmt"} |->
        IF p = "new_dagger" THEN "R&D" ELSE "R&D Support"]

\* [...dbProjects, ...LEAVE_PROJECTS] with find(p => p.id === id): the
\* first project of an id decides its category
AllProjects(dbProjects) ==
    [p \in DOMAIN dbProjects \cup LEAVE_PROJECTS |->
        IF p \in DOMAIN dbProjects THEN dbProjects[p] ELSE "Leave"]

\* The scope filter of the query; profiles!inner keeps rows of users with
\* a profile
ScopedRows_NoTeamFilter(rows, scope, target) ==
    LET joined == {r \in rows : r.user_id \in DOMAIN TeamOf}
    IN  IF scope = "user" /\ target # ""
        THEN {r \in joined : r.user_id = target}
        ELSE joined

ScopedRows(rows, scope, target) ==
    LET joined == {r \in rows : r.user_id \in DOMAIN TeamOf}
    IN  IF scope = "team" /\ target # ""
        THEN {r \in joined : TeamOf[r.user_id] = target}
        ELSE IF scope = "user" /\ target # ""
        THEN {r \in joined : r.user_id = target}
        ELSE joined

\* The field of a data point that a category adds to
CategoryField(c) ==
    CASE c = "R&D" -> "rd"
      [] c = "R&D Support" -> "support"
      [] c = "MFG Support" -> "mfg"
      [] c = "Leave" -> "leave"
      [] OTHER -> "none"

\* The keys of the rows: `${row.year}-W${row.week_number}`
WeekKeys(rows) == {<<r.year, r.week_number>> : r \in rows}

\* weeks[uniqueKey] after the forEach: one object that holds name, year,
\* week, the four category totals and one key per project id met. Numbers
\* are in thousandths, year and week included.
DataPoint(rows, allProjects, k) ==
    LET resolved == {r \in rows : /\ <<r.year, r.week_number>> = k
                                  /\ r.project_id \in DOMAIN allProjects}
        fields == {"name", "year", "week", "rd", "support", "mfg", "leave"}
                    \cup {r.project_id : r \in resolved}
        initial(f) == IF f = "year" THEN k[1] * 1000
                      ELSE IF f = "week" THEN k[2] * 1000 ELSE 0
    IN  [f \in fields |->
            IF f = "name" THEN <<k[2], k[1] % 100>>
            ELSE initial(f)
                 + SumHours({r \in resolved : r.project_id = f})
                 + SumHours({r \in resolved :
                               CategoryField(allProjects[r.project_id]) = f})]

\* The comparator of the sort
Compare(a, b) ==
    IF a["year"] # b["year"] THEN a["year"] - b["year"]
    ELSE a["week"] - b["week"]

\* The arrays Object.values(weeks).sort(...) can return: the points in an
\* order the comparator accepts; points that compare equal stay in the
\* order the store returned their first rows, which is any order
AnalyticsResults(rows, dbProjects, scope, target) ==
    LET scoped == ScopedRows(rows, scope, target)
        keys == WeekKeys(scoped)
        n == Cardinality(keys)
        orders == {o \in [1..n -> keys] :
                     \A i, j \in 1..n : i # j => o[i] # o[j]}
        points(o) == [i \in 1..n |->
                        DataPoint(scoped, AllProjects(dbProjects), o[i])]
    IN  {points(o) : o \in {x \in orders :
            \A i, j \in 1..n :
                i < j => Compare(points(x)[i], points(x)[j]) <= 0}}

\* generateDetailedCsv, the rows that pass the week filter:
\* if (activeWeeks.size > 0 && !activeWeeks.has(weekKey)) return
CsvRows(rows, scope, target, activeWeeks) ==
    {r \in ScopedRows(rows, scope, target) :
        ~(activeWeeks # {} /\ <<r.year, r.week_number>> \notin activeWeeks)}

\* generateDetailedCsv, the totals of the report: a userMap entry for each
\* user with a row that passed the filter, holding the hours of that user's
\* rows whose project resolves, and globalTotals.total
CsvTotals(rows, dbProjects, scope, target, activeWeeks) ==
    LET passed == CsvRows(rows, scope, target, activeWeeks)
        counted == {r \in passed :
                      r.project_id \in DOMAIN AllProjects(dbProjects)}
    IN  [users |-> [u \in {r.user_id : r \in passed} |->
                      SumHours({r \in counted : r.user_id = u})],
         total |-> SumHours(counted)]

\* usersToCheck: a manager's team, or for an admin every active user
UsersToCheck(role, selectedTeamId) ==
    LET activeUsers == {u \in DOMAIN StatusOf : StatusOf[u] = "active"}
    IN  IF role = "manager"
        THEN {u \in activeUsers : TeamOf[u] = selectedTeamId}
        ELSE activeUsers

\* missingUsers
MissingUsers(role, selectedTeamId, submittedUserIds) ==
    {u \in UsersToCheck(role, selectedTeamId) : u \notin submittedUserIds}

\* AdminAnalytics before any report
NoReport ==
    [op |-> "none", catalog |-> DefaultCatalog, role |-> "admin",
     scope |-> "department", team |-> "", target |-> "", key |-> <<0, 0>>,
     points |-> <<>>, submitted |-> {}, missing |-> {},
     activeWeeks |-> {}, csv |-> [users |-> <<>>, total |-> 0]]

-----------------------------------------------------------------------------
(* UserDashboard: pure parts *)

Owner == "u1"

\* The session date of the dashboard and store specifications:
\* getISOWeek(today), today.getFullYear()
Today == [year |-> 2024, week |-> 52]

Max(a, b) == IF a >= b THEN a ELSE b

\* (percentage / 100) * availableWorkHours
Scale(percentage, availableWorkHours) ==
    (percentage * availableWorkHours) \div 100

LeaveHours(currentEntries) ==
    SumHours({[p |-> lp, hours |-> currentEntries[lp].hours] :
                lp \in LEAVE_PROJECTS \cap DOMAIN currentEntries})

calculateAvailableWorkHours_NoFloor(currentEntries, target) ==
    target - LeaveHours(currentEntries)

calculateAvailableWorkHours(currentEntries, target) ==
    Max(0, target - LeaveHours(currentEntries))

\* f with key k set to v (added when absent)
Put(f, k, v) == [p \in DOMAIN f \cup {k} |-> IF p = k THEN v ELSE f[p]]

\* preferredProjects.forEach(pid => if (newEntries[pid]) hours = ...)
RecalcPreferred(es, prefs, available) ==
    [p \in DOMAIN es |->
        IF p \in prefs
        THEN [es[p] EXCEPT !.hours = Scale(es[p].percentage, available)]
        ELSE es[p]]

\* The preference sync effect
SyncPreferred(prev, prefs) ==
    LET added == [p \in DOMAIN prev \cup prefs |->
                    IF p \in DOMAIN prev THEN prev[p] ELSE ZeroEntry]
    IN  [p \in DOMAIN added |->
            IF ~IsLeave(p) /\ p \notin prefs
               /\ (added[p].percentage > 0 \/ added[p].hours > 0)
            THEN [added[p] EXCEPT !.percentage = 0, !.hours = 0]
            ELSE added[p]]

handleTotalHoursChangeEntries(prev, newTotal, prefs) ==
    RecalcPreferred(prev, prefs, calculateAvailableWorkHours(prev, newTotal))

handleLeaveChangeEntries(prev, projectId, days, target, prefs) ==
    LET cur == IF projectId \in DOMAIN prev THEN prev[projectId] ELSE ZeroEntry
        withLeave == Put(prev, projectId,
                         [cur EXCEPT !.days = days, !.hours = days * 8])
    IN  RecalcPreferred(withLeave, prefs,
                        calculateAvailableWorkHours(withLeave, target))

handleWorkChangeEntries(prev, projectId, percentage, target) ==
    LET cur == IF projectId \in DOMAIN prev THEN prev[projectId] ELSE ZeroEntry
        available == calculateAvailableWorkHours(prev, target)
    IN  Put(prev, projectId,
            [cur EXCEPT !.percentage = percentage,
                        !.hours = Scale(percentage, available)])

\* calculateTotals().totalPercentage: preferred non-leave entries only
totalPercentage ==
    SumPercentage({[p |-> p, percentage |-> entries[p].percentage] :
                     p \in {q \in DOMAIN entries :
                              ~IsLeave(q) /\ q \in preferredProjects}})

\* The render's availableWorkHours
availableWorkHours == Max(0, weeklyHoursTarget - LeaveHours(entries))

\* Math.abs(totalPercentage - 100) < 0.1, on whole percentages
isAllocationValid == availableWorkHours = 0 \/ totalPercentage = 100

isFutureLocked ==
    year * 52 + week > today.year * 52 + today.week + 2

isWorkLocked == isFutureLocked

\* week - 1, wrapping to week 52 of the year before
PrevWeekOf(y, w) == IF w - 1 < 1 THEN <<y - 1, 52>> ELSE <<y, w - 1>>

NextWeekOf(y, w) == IF w + 1 > 52 THEN <<y + 1, 1>> ELSE <<y, w + 1>>

\* CASE B copying the previous week's entries as they are
CarryForward_CopiesHours(prevEntries, currentHoursTarget, prefs) ==
    [p \in DOMAIN prevEntries \cup prefs \cup LEAVE_PROJECTS |->
        IF p \in DOMAIN prevEntries THEN prevEntries[p] ELSE ZeroEntry]

\* loadData CASE B: the entry set built from the previous week's entries
CarryForward(prevEntries, currentHoursTarget, prefs) ==
    [p \in DOMAIN prevEntries \cup prefs \cup LEAVE_PROJECTS |->
        IF p \in DOMAIN prevEntries /\ ~IsLeave(p)
        THEN [percentage |-> prevEntries[p].percentage, days |-> 0,
              hours |-> Scale(prevEntries[p].percentage, currentHoursTarget)]
        ELSE ZeroEntry]

\* loadData CASE C
BlankSlate(prefs) == [p \in prefs \cup LEAVE_PROJECTS |-> ZeroEntry]

\* AdminTimesheetEditor.handleEntryChange: totalLeave, availableWorkHours
AdminAvailableWorkHours(newEntries, totalCapacity) ==
    Max(0, totalCapacity - LeaveHours(newEntries))

NoCalc == [done |-> FALSE, es |-> EmptyEntries, target |-> 0, dashboard |-> 0,
           admin |-> 0]

-----------------------------------------------------------------------------
(* UserDashboard: the handlers and the steps of loadData *)

\* The largest number of loadData calls in flight at once
MaxInFlight == 2

\* The largest number of pending setTimeout callbacks
MaxTimers == 1

\* The longest session explored, in operations
MaxSteps == 6

PctInputs == {0, 50, 100}

\* Leave days typed or stepped to: none or one day
DayInputs == {0, 1000}

\* Total Capacity typed: 8 h or 40 h
CapacityInputs == {8000, 40000}

NewLoad(y, w, prefs) ==
    [year |-> y, week |-> w, pc |-> "start", prefs |-> prefs,
     currentHoursTarget |-> 0, dbEntries |-> EmptyEntries,
     prevEntries |-> EmptyEntries, readFailed |-> FALSE]

Without(seq, i) == [j \in 1..(Len(seq) - 1) |->
                      IF j < i THEN seq[j] ELSE seq[j + 1]]

\* History records: the operation, the load it stepped (if any), the caller
\* of saveTimesheet it stepped (if any), the entry set it started from (kept
\* for the handlers that rewrite the entry set in place)
Op(name) ==
    [op |-> name, load |-> NewLoad(0, 0, {}), who |-> "owner",
     before |-> EmptyEntries]

OpLoad(name, l) ==
    [op |-> name, load |-> l, who |-> "owner", before |-> EmptyEntries]

OpWho(name, c) ==
    [op |-> name, load |-> NewLoad(0, 0, {}), who |-> c,
     before |-> EmptyEntries]

OpBefore(name, es) ==
    [op |-> name, load |-> NewLoad(0, 0, {}), who |-> "owner",
     before |-> es]

\* History: one more operation of the session, of at most MaxSteps
Tick ==
    /\ steps < bound.steps
    /\ steps' = steps + 1
    /\ ahead' = ahead + (IF last'.op = "handleNext" THEN 1
                         ELSE IF last'.op = "handlePrev" THEN -1 ELSE 0)
    /\ UNCHANGED <<written, calc, today, bound, admin, analytics>>

\* WeekSelector onChange, then the effect on [week, year]: loadData starts
SelectWeek(yw) ==
    /\ yw \in bound.weeks
    /\ Len(loads) < bound.inFlight
    /\ year' = yw[1]
    /\ week' = yw[2]
    /\ saveStatus' = "idle"
    /\ isLoading' = TRUE
    /\ prefilledFromPrev' = FALSE
    /\ loads' = Append(loads, NewLoad(yw[1], yw[2], preferredProjects))
    /\ UNCHANGED <<appliedFor, db, save, entries, weeklyHoursTarget, hasSubmittedData,
                   preferredProjects, localHours, timers>>

handlePrev ==
    /\ SelectWeek(PrevWeekOf(year, week))
    /\ last' = Op("handlePrev")
    /\ Tick

handleNext ==
    /\ SelectWeek(NextWeekOf(year, week))
    /\ last' = Op("handleNext")
    /\ Tick

\* getProjects has resolved: the capacity preference is read and set, and
\* getTimesheet reads the week the load was issued for
LoadFetchCurrent(i) ==
    LET l == loads[i]
        cap == IF localHours.set THEN localHours.value ELSE 40000
        l2 == [l EXCEPT !.pc = "current", !.currentHoursTarget = cap,
                        !.dbEntries =
                            GetTimesheet(db, Key(Owner, l.year, l.week))]
    IN  /\ l.pc = "start"
        /\ weeklyHoursTarget' = cap
        /\ loads' = [loads EXCEPT ![i] = l2]
        /\ last' = OpLoad("LoadFetchCurrent", l2)
        /\ Tick
        /\ UNCHANGED <<appliedFor, db, save, year, week, entries, saveStatus, isLoading,
                       hasSubmittedData, prefilledFromPrev,
                       preferredProjects, localHours, timers>>

\* The read of the selected week meets a store error: getTimesheet returns
\* {} (`if (error) return {}`), and the load remembers that the read failed
LoadFetchCurrentFailed(i) ==
    LET l == loads[i]
        cap == IF localHours.set THEN localHours.value ELSE 40000
        l2 == [l EXCEPT !.pc = "current", !.currentHoursTarget = cap,
                        !.dbEntries = EmptyEntries, !.readFailed = TRUE]
    IN  /\ l.pc = "start"
        /\ weeklyHoursTarget' = cap
        /\ loads' = [loads EXCEPT ![i] = l2]
        /\ last' = OpLoad("LoadFetchCurrentFailed", l2)
        /\ Tick
        /\ UNCHANGED <<appliedFor, db, save, year, week, entries, saveStatus, isLoading,
                       hasSubmittedData, prefilledFromPrev,
                       preferredProjects, localHours, timers>>

\* CASE A: the week has rows
LoadCaseA(i) ==
    LET l == loads[i]
    IN  /\ l.pc = "current"
        /\ DOMAIN l.dbEntries # {}
        /\ entries' = l.dbEntries
        /\ hasSubmittedData' = TRUE
        /\ isLoading' = FALSE
        /\ loads' = Without(loads, i)
        /\ last' = OpLoad("LoadCaseA", l)
        /\ Tick
        /\ appliedFor' = <<l.year, l.week>>
        /\ UNCHANGED <<db, save, year, week, weeklyHoursTarget, saveStatus,
                       prefilledFromPrev, preferredProjects, localHours,
                       timers>>

\* The week has no rows: getTimesheet reads the previous week
LoadFetchPrev(i) ==
    LET l == loads[i]
        pw == PrevWeekOf(l.year, l.week)
        l2 == [l EXCEPT !.pc = "prev",
                        !.prevEntries =
                            GetTimesheet(db, Key(Owner, pw[1], pw[2]))]
    IN  /\ l.pc = "current"
        /\ DOMAIN l.dbEntries = {}
        /\ loads' = [loads EXCEPT ![i] = l2]
        /\ last' = OpLoad("LoadFetchPrev", l2)
        /\ Tick
        /\ UNCHANGED <<appliedFor, db, save, year, week, entries, weeklyHoursTarget,
                       saveStatus, isLoading, hasSubmittedData,
                       prefilledFromPrev, preferredProjects, localHours,
                       timers>>

\* CASE B marking the pre-filled week as submitted
LoadCaseB_MarksSubmitted(i) ==
    LET l == loads[i]
    IN  /\ l.pc = "prev"
        /\ DOMAIN l.prevEntries # {}
        /\ entries' = CarryForward(l.prevEntries, l.currentHoursTarget,
                                   l.prefs)
        /\ hasSubmittedData' = TRUE
        /\ prefilledFromPrev' = TRUE
        /\ isLoading' = FALSE
        /\ loads' = Without(loads, i)
        /\ last' = OpLoad("LoadCaseB", l)
        /\ Tick
        /\ appliedFor' = <<l.year, l.week>>
        /\ UNCHANGED <<db, save, year, week, weeklyHoursTarget, saveStatus,
                       preferredProjects, localHours, timers>>

\* CASE B: carry-forward from the previous week
LoadCaseB(i) ==
    LET l == loads[i]
        hasWorkData == \E p \in DOMAIN l.prevEntries :
                          ~IsLeave(p) /\ l.prevEntries[p].percentage > 0
    IN  /\ l.pc = "prev"
        /\ DOMAIN l.prevEntries # {}
        /\ entries' = CarryForward(l.prevEntries, l.currentHoursTarget,
                                   l.prefs)
        /\ hasSubmittedData' = FALSE
        /\ prefilledFromPrev' = IF hasWorkData THEN TRUE
                                ELSE prefilledFromPrev
        /\ isLoading' = FALSE
        /\ loads' = Without(loads, i)
        /\ last' = OpLoad("LoadCaseB", l)
        /\ Tick
        /\ appliedFor' = <<l.year, l.week>>
        /\ UNCHANGED <<db, save, year, week, weeklyHoursTarget, saveStatus,
                       preferredProjects, localHours, timers>>

\* CASE C: blank slate
LoadCaseC(i) ==
    LET l == loads[i]
    IN  /\ l.pc = "prev"
        /\ DOMAIN l.prevEntries = {}
        /\ entries' = BlankSlate(l.prefs)
        /\ hasSubmittedData' = FALSE
        /\ isLoading' = FALSE
        /\ loads' = Without(loads, i)
        /\ last' = OpLoad("LoadCaseC", l)
        /\ Tick
        /\ appliedFor' = <<l.year, l.week>>
        /\ UNCHANGED <<db, save, year, week, weeklyHoursTarget, saveStatus,
                       prefilledFromPrev, preferredProjects, localHours,
                       timers>>

\* ProjectManager onSave -> App.handleUpdatePreferred, then the sync effect
UpdatePreferred(newIds) ==
    /\ preferredProjects' = newIds
    /\ entries' = SyncPreferred(entries, newIds)
    /\ last' = OpBefore("UpdatePreferred", entries)
    /\ Tick
    /\ UNCHANGED <<appliedFor, db, save, year, week, weeklyHoursTarget, saveStatus,
                   isLoading, hasSubmittedData, prefilledFromPrev,
                   localHours, loads, timers>>

\* The card's inputs lie under the loading overlay while isLoading
handleTotalHoursChange(newTotal) ==
    /\ ~isLoading
    /\ weeklyHoursTarget' = newTotal
    /\ localHours' = [set |-> TRUE, value |-> newTotal]
    /\ entries' = handleTotalHoursChangeEntries(entries, newTotal,
                                                preferredProjects)
    /\ saveStatus' = "idle"
    /\ last' = Op("handleTotalHoursChange")
    /\ Tick
    /\ UNCHANGED <<appliedFor, db, save, year, week, isLoading, hasSubmittedData,
                   prefilledFromPrev, preferredProjects, loads, timers>>

handleLeaveChange(projectId, days) ==
    /\ ~isLoading
    /\ entries' = handleLeaveChangeEntries(entries, projectId, days,
                                           weeklyHoursTarget,
                                           preferredProjects)
    /\ saveStatus' = "idle"
    /\ last' = OpBefore("handleLeaveChange", entries)
    /\ Tick
    /\ UNCHANGED <<appliedFor, db, save, year, week, weeklyHoursTarget, isLoading,
                   hasSubmittedData, prefilledFromPrev, preferredProjects,
                   localHours, loads, timers>>

\* handleWorkChange reachable in a locked week
handleWorkChange_NoLock(projectId, percentage) ==
    /\ ~isLoading
    /\ availableWorkHours # 0
    /\ projectId \in preferredProjects
    /\ entries' = handleWorkChangeEntries(entries, projectId, percentage,
                                          weeklyHoursTarget)
    /\ saveStatus' = "idle"
    /\ last' = Op("handleWorkChange")
    /\ Tick
    /\ UNCHANGED <<appliedFor, db, save, year, week, weeklyHoursTarget, isLoading,
                   hasSubmittedData, prefilledFromPrev, preferredProjects,
                   localHours, loads, timers>>

\* The work section is inert (pointer-events-none) when the week is locked
\* or no work hours are available; it lists the preferred projects
handleWorkChange(projectId, percentage) ==
    /\ ~isLoading
    /\ ~isWorkLocked
    /\ availableWorkHours # 0
    /\ projectId \in preferredProjects
    /\ entries' = handleWorkChangeEntries(entries, projectId, percentage,
                                          weeklyHoursTarget)
    /\ saveStatus' = "idle"
    /\ last' = Op("handleWorkChange")
    /\ Tick
    /\ UNCHANGED <<appliedFor, db, save, year, week, weeklyHoursTarget, isLoading,
                   hasSubmittedData, prefilledFromPrev, preferredProjects,
                   localHours, loads, timers>>

\* The disabled condition without the lock
SaveDisabled_IgnoresLock ==
    saveStatus = "saving" \/ ~isAllocationValid

\* The Save button's disabled condition
SaveDisabled ==
    saveStatus = "saving" \/ isWorkLocked \/ ~isAllocationValid

\* handleSave up to its await
handleSave ==
    /\ ~SaveDisabled
    /\ timers < MaxTimers
    /\ SaveCall("owner", Key(Owner, year, week), entries)
    /\ saveStatus' = "saving"
    /\ last' = Op("handleSave")
    /\ Tick
    /\ UNCHANGED <<appliedFor, year, week, entries, weeklyHoursTarget, isLoading,
                   hasSubmittedData, prefilledFromPrev, preferredProjects,
                   localHours, loads, timers>>

\* handleSave after its await: the result of saveTimesheet is not read
AfterOwnerSave ==
    IF save'["owner"].pc = "done"
    THEN /\ saveStatus' = "saved"
         /\ hasSubmittedData' = TRUE
         /\ timers' = timers + 1
    ELSE UNCHANGED <<saveStatus, hasSubmittedData, timers>>

OwnerDeleteFailed ==
    /\ DeleteFailed("owner")
    /\ AfterOwnerSave
    /\ last' = Op("DeleteFailed")
    /\ Tick
    /\ UNCHANGED <<appliedFor, year, week, entries, weeklyHoursTarget, isLoading,
                   prefilledFromPrev, preferredProjects, localHours, loads>>

OwnerDeleteDone ==
    /\ DeleteDone("owner")
    /\ AfterOwnerSave
    /\ last' = Op("DeleteDone")
    /\ Tick
    /\ UNCHANGED <<appliedFor, year, week, entries, weeklyHoursTarget, isLoading,
                   prefilledFromPrev, preferredProjects, localHours, loads>>

OwnerInsertDone ==
    /\ InsertDone("owner")
    /\ AfterOwnerSave
    /\ last' = Op("InsertDone")
    /\ Tick
    /\ UNCHANGED <<appliedFor, year, week, entries, weeklyHoursTarget, isLoading,
                   prefilledFromPrev, preferredProjects, localHours, loads>>

OwnerInsertFailed ==
    /\ InsertFailed("owner", "permission denied")
    /\ AfterOwnerSave
    /\ last' = Op("InsertFailed")
    /\ Tick
    /\ UNCHANGED <<appliedFor, year, week, entries, weeklyHoursTarget, isLoading,
                   prefilledFromPrev, preferredProjects, localHours, loads>>

\* setTimeout(() => setSaveStatus('idle'), 2000)
TimerFire ==
    /\ timers > 0
    /\ timers' = timers - 1
    /\ saveStatus' = "idle"
    /\ last' = Op("TimerFire")
    /\ Tick
    /\ UNCHANGED <<appliedFor, db, save, year, week, entries, weeklyHoursTarget,
                   isLoading, hasSubmittedData, prefilledFromPrev,
                   preferredProjects, localHours, loads>>

-----------------------------------------------------------------------------
(* AdminTimesheetEditor, correcting the timesheets of user Owner *)

\* The editor before it is opened: useState({}), useState(40)
AdminClosed ==
    [pc |-> "closed", year |-> 0, week |-> 0, entries |-> EmptyEntries,
     totalCapacity |-> 40000]

\* The inference with Math.floor in place of Math.round
InferredCapacity_Truncates(dbEntries) ==
    LET work == {[p |-> q, hours |-> dbEntries[q].hours,
                  percentage |-> dbEntries[q].percentage] :
                    q \in {x \in DOMAIN dbEntries : ~IsLeave(x)}}
        sumHours == SumHours(work)
        sumPct == SumPercentage(work)
    IN  IF sumHours > 0 /\ sumPct > 0
        THEN ((sumHours * 100) \div (sumPct * 1000)) * 1000
        ELSE 40000

\* Math.round(sumHours / (sumPct / 100)), in whole hours
InferredCapacity(dbEntries) ==
    LET work == {[p |-> q, hours |-> dbEntries[q].hours,
                  percentage |-> dbEntries[q].percentage] :
                    q \in {x \in DOMAIN dbEntries : ~IsLeave(x)}}
        sumHours == SumHours(work)
        sumPct == SumPercentage(work)
    IN  IF sumHours > 0 /\ sumPct > 0
        THEN ((2 * sumHours * 100 + sumPct * 1000)
                \div (2 * sumPct * 1000)) * 1000
        ELSE 40000

\* handleEntryChange with a days input that leaves the hours alone
handleEntryChangeEntries_KeepsHours(prev, projectId, field, value, totalCapacity) ==
    IF IsLeave(projectId) /\ field = "days"
    THEN [prev EXCEPT ![projectId].days = value]
    ELSE prev

\* handleEntryChange: the setEntries updater
handleEntryChangeEntries(prev, projectId, field, value, totalCapacity) ==
    LET cur == IF projectId \in DOMAIN prev THEN prev[projectId] ELSE ZeroEntry
        edited ==
            IF IsLeave(projectId) /\ field = "days"
            THEN Put(prev, projectId,
                     [cur EXCEPT !.days = value, !.hours = value * 8])
            ELSE IF ~IsLeave(projectId) /\ field = "percentage"
            THEN Put(prev, projectId, [cur EXCEPT !.percentage = value])
            ELSE prev
        available == AdminAvailableWorkHours(edited, totalCapacity)
    IN  [q \in DOMAIN edited |->
            IF IsLeave(q) THEN edited[q]
            ELSE [edited[q] EXCEPT
                    !.hours = Scale(edited[q].percentage, available)]]

\* The dashboard's state, left alone by the admin editor
dashState ==
    <<year, week, entries, weeklyHoursTarget, saveStatus, isLoading,
      hasSubmittedData, prefilledFromPrev, preferredProjects, localHours,
      loads, timers, appliedFor>>

\* History: one more operation of the admin
AdminTick ==
    /\ steps < bound.steps
    /\ steps' = steps + 1
    /\ UNCHANGED <<written, calc, today, bound, ahead, dashState, analytics>>

\* The editor is opened on a week: the effect starts loadData
AdminOpen(yw) ==
    /\ admin.pc = "closed"
    /\ yw \in bound.weeks
    /\ admin' = [admin EXCEPT !.pc = "loading", !.year = yw[1],
                              !.week = yw[2]]
    /\ last' = OpWho("AdminOpen", "admin")
    /\ AdminTick
    /\ UNCHANGED <<db, save>>

\* loadData after its awaits: capacity inferred, entries as read
AdminLoadData ==
    LET dbEntries == GetTimesheet(db, Key(Owner, admin.year, admin.week))
    IN  /\ admin.pc = "loading"
        /\ admin' = [admin EXCEPT
                       !.pc = "ready",
                       !.entries = dbEntries,
                       !.totalCapacity = InferredCapacity(dbEntries)]
        /\ last' = OpWho("AdminLoadData", "admin")
        /\ AdminTick
        /\ UNCHANGED <<db, save>>

\* ensureEntry: a project chosen in the Add Project dropdown
AdminEnsureEntry(projectId) ==
    /\ admin.pc = "ready"
    /\ projectId \notin DOMAIN admin.entries
    /\ admin' = [admin EXCEPT
                   !.entries = Put(admin.entries, projectId, ZeroEntry)]
    /\ last' = OpWho("AdminEnsureEntry", "admin")
    /\ AdminTick
    /\ UNCHANGED <<db, save>>

\* A row's input: days for a leave entry, percentage for a work entry
AdminEntryChange(projectId, value) ==
    /\ admin.pc = "ready"
    /\ projectId \in DOMAIN admin.entries
    /\ admin' = [admin EXCEPT
                   !.entries = handleEntryChangeEntries(
                                  admin.entries, projectId,
                                  IF IsLeave(projectId) THEN "days"
                                  ELSE "percentage",
                                  value, admin.totalCapacity)]
    /\ last' = [OpWho("AdminEntryChange", "admin") EXCEPT
                  !.before = admin.entries]
    /\ AdminTick
    /\ UNCHANGED <<db, save>>

\* The Total Capacity input: setTotalCapacity
AdminSetTotalCapacity(c) ==
    /\ admin.pc = "ready"
    /\ admin' = [admin EXCEPT !.totalCapacity = c]
    /\ last' = OpWho("AdminSetTotalCapacity", "admin")
    /\ AdminTick
    /\ UNCHANGED <<db, save>>

\* handleSave up to its await
AdminSave ==
    /\ admin.pc = "ready"
    /\ SaveCall("admin", Key(Owner, admin.year, admin.week), admin.entries)
    /\ admin' = [admin EXCEPT !.pc = "saving"]
    /\ last' = OpWho("AdminSave", "admin")
    /\ AdminTick

\* handleSave after its await: onClose on success, the editor stays open
\* on failure
AfterAdminSave ==
    IF save'["admin"].pc = "done"
    THEN admin' = [admin EXCEPT
                     !.pc = IF save'["admin"].result.success
                            THEN "closed" ELSE "ready"]
    ELSE UNCHANGED admin

AdminDeleteFailed ==
    /\ DeleteFailed("admin")
    /\ AfterAdminSave
    /\ last' = OpWho("DeleteFailed", "admin")
    /\ AdminTick

AdminDeleteDone ==
    /\ DeleteDone("admin")
    /\ AfterAdminSave
    /\ last' = OpWho("DeleteDone", "admin")
    /\ AdminTick

AdminInsertDone ==
    /\ InsertDone("admin")
    /\ AfterAdminSave
    /\ last' = OpWho("InsertDone", "admin")
    /\ AdminTick

AdminInsertFailed(why) ==
    /\ InsertFailed("admin", why)
    /\ AfterAdminSave
    /\ last' = OpWho("InsertFailed", "admin")
    /\ AdminTick

-----------------------------------------------------------------------------
(* The dashboard over a store that holds earlier weeks of its user *)

\* A week as the owner saved it: 40 h capacity, one day of vacation
SeedEntries ==
    [p \in {"new_dagger", "project_mgmt", "vacation"} |->
        IF p = "vacation"
        THEN [percentage |-> 0, days |-> 1000, hours |-> 8000]
        ELSE [percentage |-> 50, days |-> 0, hours |-> 16000]]

SeedStore(ws) ==
    UNION {{Stored(r) : r \in RowsToInsert(Key(Owner, yw[1], yw[2]),
                                           SeedEntries)} : yw \in ws}

DashInit ==
    /\ db \in {SeedStore(ws) : ws \in SUBSET {<<2024, 52>>, <<2025, 1>>}}
    /\ save = [c \in Savers |-> IdleSave]
    /\ today = Today
    /\ ahead = 0
    /\ admin = AdminClosed
    /\ analytics = NoReport
    /\ bound = [steps |-> MaxSteps, inFlight |-> MaxInFlight, weeks |-> Weeks]
    /\ year = Today.year
    /\ week = Today.week
    /\ preferredProjects \in {{"new_dagger"}, {"new_dagger", "project_mgmt"}}
    /\ entries = SyncPreferred(EmptyEntries, preferredProjects)
    /\ weeklyHoursTarget = 40000
    /\ saveStatus = "idle"
    /\ isLoading = TRUE
    /\ hasSubmittedData = FALSE
    /\ prefilledFromPrev = FALSE
    /\ localHours \in {[set |-> FALSE, value |-> 0],
                      [set |-> TRUE, value |-> 8000]}
    /\ loads = <<NewLoad(Today.year, Today.week, preferredProjects)>>
    /\ timers = 0
    /\ last = Op("mount")
    /\ steps = 0
    /\ appliedFor = <<0, 0>>
    /\ written = {}
    /\ calc = NoCalc

DashNext ==
    \/ handlePrev
    \/ handleNext
    \/ \E i \in 1..Len(loads) : LoadFetchCurrent(i)
    \/ \E i \in 1..Len(loads) : LoadCaseA(i)
    \/ \E i \in 1..Len(loads) : LoadFetchPrev(i)
    \/ \E i \in 1..Len(loads) : LoadCaseB(i)
    \/ \E i \in 1..Len(loads) : LoadCaseC(i)
    \/ \E ids \in SUBSET WorkProjects : UpdatePreferred(ids)
    \/ \E t \in CapacityInputs : handleTotalHoursChange(t)
    \/ \E lp \in LEAVE_PROJECTS, d \in DayInputs : handleLeaveChange(lp, d)
    \/ \E p \in WorkProjects, pct \in PctInputs : handleWorkChange(p, pct)
    \/ handleSave
    \/ OwnerDeleteFailed
    \/ OwnerDeleteDone
    \/ OwnerInsertDone
    \/ OwnerInsertFailed
    \/ TimerFire

SpecDash == DashInit /\ [][DashNext]_vars

-----------------------------------------------------------------------------
(* The owner's dashboard and the admin's editor over the same store *)

\* The longest session of the two editors together, in operations
MaxEditorSteps == 6

\* The most loads the dashboard has in flight beside the admin editor
MaxEditorInFlight == 1

\* Days an admin types into a leave row, in thousandths of a day
AdminDayInputs == {0, 500, 2000}

\* Capacities an admin types, in thousandths of an hour
AdminCapacityInputs == {0, 32000}

AdminNext ==
    \/ \E yw \in Weeks : AdminOpen(yw)
    \/ AdminLoadData
    \/ \E p \in Projects : AdminEnsureEntry(p)
    \/ \E p \in LEAVE_PROJECTS, d \in AdminDayInputs : AdminEntryChange(p, d)
    \/ \E p \in WorkProjects, pct \in PctInputs : AdminEntryChange(p, pct)
    \/ \E c \in AdminCapacityInputs : AdminSetTotalCapacity(c)
    \/ AdminSave
    \/ AdminDeleteFailed
    \/ AdminDeleteDone
    \/ AdminInsertDone
    \/ \E why \in InsertErrors : AdminInsertFailed(why)

EditorsInit ==
    /\ db = SeedStore({<<Today.year, Today.week>>})
    /\ save = [c \in Savers |-> IdleSave]
    /\ today = Today
    /\ ahead = 0
    /\ admin = AdminClosed
    /\ analytics = NoReport
    /\ bound = [steps |-> MaxEditorSteps, inFlight |-> MaxEditorInFlight,
                weeks |-> Weeks \cup {<<2024, 51>>}]
    /\ year = Today.year
    /\ week = Today.week
    /\ preferredProjects = {"new_dagger"}
    /\ entries = SyncPreferred(EmptyEntries, preferredProjects)
    /\ weeklyHoursTarget = 40000
    /\ saveStatus = "idle"
    /\ isLoading = TRUE
    /\ hasSubmittedData = FALSE
    /\ prefilledFromPrev = FALSE
    /\ localHours = [set |-> FALSE, value |-> 0]
    /\ loads = <<NewLoad(Today.year, Today.week, preferredProjects)>>
    /\ timers = 0
    /\ last = Op("mount")
    /\ steps = 0
    /\ appliedFor = <<0, 0>>
    /\ written = {}
    /\ calc = NoCalc

EditorsNext ==
    \/ DashNext
    \/ AdminNext

SpecEditors == EditorsInit /\ [][EditorsNext]_vars

-----------------------------------------------------------------------------
(* The admin's editor over weeks the owner saved *)

\* The longest session of the admin editor, in operations
MaxAdminSteps == 5

\* The entry set the dashboard holds, and saves, for a capacity, a number of
\* vacation days and the percentages of two work projects
OwnerSavedEntries(capacity, leaveDays, a, b) ==
    LET leave == [percentage |-> 0, days |-> leaveDays,
                  hours |-> leaveDays * 8]
        available == Max(0, capacity - leaveDays * 8)
    IN  [p \in {"new_dagger", "project_mgmt", "vacation"} |->
            IF p = "vacation" THEN leave
            ELSE IF p = "new_dagger"
            THEN [percentage |-> a, days |-> 0,
                  hours |-> Scale(a, available)]
            ELSE [percentage |-> b, days |-> 0,
                  hours |-> Scale(b, available)]]

\* Weeks as the owner saved them: a full allocation under a capacity of
\* 40 h, 37.5 h or 8 h, with no leave or a day of vacation
OwnerSavedWeeks ==
    {OwnerSavedEntries(c, d, ab[1], ab[2]) :
        c \in {40000, 37500, 8000}, d \in {0, 1000},
        ab \in {<<100, 0>>, <<50, 50>>, <<33, 67>>}}

AdminInit ==
    /\ db \in {{Stored(r) : r \in RowsToInsert(Key(Owner, 2025, 1), es)} :
                es \in OwnerSavedWeeks}
    /\ save = [c \in Savers |-> IdleSave]
    /\ today = Today
    /\ ahead = 0
    /\ admin = AdminClosed
    /\ analytics = NoReport
    /\ bound = [steps |-> MaxAdminSteps, inFlight |-> MaxInFlight,
                weeks |-> Weeks]
    /\ year = Today.year
    /\ week = Today.week
    /\ preferredProjects = {}
    /\ entries = EmptyEntries
    /\ weeklyHoursTarget = 40000
    /\ saveStatus = "idle"
    /\ isLoading = FALSE
    /\ hasSubmittedData = FALSE
    /\ prefilledFromPrev = FALSE
    /\ localHours = [set |-> FALSE, value |-> 0]
    /\ loads = <<>>
    /\ timers = 0
    /\ last = Op("mount")
    /\ steps = 0
    /\ appliedFor = <<0, 0>>
    /\ written = {}
    /\ calc = NoCalc

SpecAdmin == AdminInit /\ [][AdminNext]_vars

-----------------------------------------------------------------------------
(* The dashboard over a store whose reads can fail *)

ReadErrorNext ==
    \/ DashNext
    \/ \E i \in 1..Len(loads) : LoadFetchCurrentFailed(i)

SpecReadError == EditorsInit /\ [][ReadErrorNext]_vars

-----------------------------------------------------------------------------
(* The dashboard mounted on different dates, stepping freely through weeks *)

\* The longest session explored from these dates, in operations
MaxLockSteps == 6

\* The largest number of loadData calls in flight at once in these sessions
MaxLockInFlight == 4

\* Session dates: the last week of a 52-week year, and week 53 of a 53-week
\* year (getISOWeek of 28 December 2026 is 53)
LockTodays ==
    {[year |-> 2024, week |-> 52], [year |-> 2026, week |-> 53]}

\* Every (year, week) the selector can reach in a session
AllWeeks == {<<y, w>> : y \in 2023..2028, w \in 1..53}

\* The week three handleNext steps after (y, w)
ThirdWeekAfter(y, w) ==
    LET a == NextWeekOf(y, w)
        b == NextWeekOf(a[1], a[2])
    IN  NextWeekOf(b[1], b[2])

\* The store holds rows of the owner for the current week and (written by
\* the admin editor) for the week three steps ahead
LockInit ==
    /\ today \in LockTodays
    /\ ahead = 0
    /\ admin = AdminClosed
    /\ analytics = NoReport
    /\ bound = [steps |-> MaxLockSteps, inFlight |-> MaxLockInFlight,
                weeks |-> AllWeeks]
    /\ db = SeedStore({<<today.year, today.week>>,
                       ThirdWeekAfter(today.year, today.week)})
    /\ save = [c \in Savers |-> IdleSave]
    /\ year = today.year
    /\ week = today.week
    /\ preferredProjects = {"new_dagger", "project_mgmt"}
    /\ entries = SyncPreferred(EmptyEntries, preferredProjects)
    /\ weeklyHoursTarget = 40000
    /\ saveStatus = "idle"
    /\ isLoading = TRUE
    /\ hasSubmittedData = FALSE
    /\ prefilledFromPrev = FALSE
    /\ localHours = [set |-> FALSE, value |-> 0]
    /\ loads = <<NewLoad(today.year, today.week, preferredProjects)>>
    /\ timers = 0
    /\ last = Op("mount")
    /\ steps = 0
    /\ appliedFor = <<0, 0>>
    /\ written = {}
    /\ calc = NoCalc

SpecLock == LockInit /\ [][DashNext]_vars

-----------------------------------------------------------------------------
(* The store under saves of the owner and of an admin *)

\* The largest number of saveTimesheet calls in a run
MaxSaves == 2

\* The week both callers save
SaveKey == Key(Owner, 2025, 1)

\* Entry sets handed to saveTimesheet: a work entry that is absent, zeroed,
\* at 50 % or at 100 %; a second work entry that is absent or holds a
\* percentage with no hours (no work hours were available); a vacation
\* entry that is zeroed or one day
SaveInputs ==
    LET nd == {"absent", "zero", "half", "full"}
        pm == {"absent", "nohours"}
        vac == {"zero", "day"}
        val(x) == CASE x = "zero" -> ZeroEntry
                    [] x = "half" -> [percentage |-> 50, days |-> 0,
                                      hours |-> 16000]
                    [] x = "full" -> [percentage |-> 100, days |-> 0,
                                      hours |-> 40000]
                    [] x = "nohours" -> [percentage |-> 100, days |-> 0,
                                         hours |-> 0]
                    [] x = "day" -> [percentage |-> 0, days |-> 1000,
                                     hours |-> 8000]
        dom(a, b) == (IF a = "absent" THEN {} ELSE {"new_dagger"})
                     \cup (IF b = "absent" THEN {} ELSE {"project_mgmt"})
                     \cup {"vacation"}
    IN  {[p \in dom(a, b) |->
            IF p = "new_dagger" THEN val(a)
            ELSE IF p = "project_mgmt" THEN val(b) ELSE val(c)] :
         a \in nd, b \in pm, c \in vac}

\* Rows of another user and of another week of the owner
OtherRows ==
    {Stored(r) : r \in RowsToInsert(Key("u2", 2025, 1), SeedEntries)}
    \cup {Stored(r) : r \in RowsToInsert(Key(Owner, 2024, 52), SeedEntries)}

StoreInit ==
    /\ db \in {OtherRows, OtherRows \cup SeedStore({<<2025, 1>>})}
    /\ save = [c \in Savers |-> IdleSave]
    /\ today = Today
    /\ ahead = 0
    /\ admin = AdminClosed
    /\ analytics = NoReport
    /\ bound = [steps |-> MaxSteps, inFlight |-> MaxInFlight, weeks |-> Weeks]
    /\ year = Today.year
    /\ week = Today.week
    /\ preferredProjects = {}
    /\ entries = EmptyEntries
    /\ weeklyHoursTarget = 40000
    /\ saveStatus = "idle"
    /\ isLoading = FALSE
    /\ hasSubmittedData = FALSE
    /\ prefilledFromPrev = FALSE
    /\ localHours = [set |-> FALSE, value |-> 0]
    /\ loads = <<>>
    /\ timers = 0
    /\ last = Op("mount")
    /\ steps = 0
    /\ appliedFor = <<0, 0>>
    /\ written = {}
    /\ calc = NoCalc

StoreSaveCall(c, es) ==
    /\ steps < MaxSaves
    /\ steps' = steps + 1
    /\ SaveCall(c, SaveKey, es)
    /\ last' = OpWho("SaveCall", c)
    /\ UNCHANGED <<dashVars, appliedFor, written, calc>>

\* A caller starts a save only when no save is in progress
SeqSaveCall(c, es) ==
    /\ \A d \in Savers : Settled(d)
    /\ StoreSaveCall(c, es)

StoreDeleteFailed(c) ==
    /\ DeleteFailed(c)
    /\ last' = OpWho("DeleteFailed", c)
    /\ UNCHANGED <<dashVars, steps, appliedFor, written, calc>>

StoreDeleteDone(c) ==
    /\ DeleteDone(c)
    /\ last' = OpWho("DeleteDone", c)
    /\ UNCHANGED <<dashVars, steps, appliedFor, written, calc>>

StoreInsertDone(c) ==
    /\ InsertDone(c)
    /\ last' = OpWho("InsertDone", c)
    /\ written' = written \cup {RowsOf(db', save[c].key) \ RowsOf(db, save[c].key)}
    /\ UNCHANGED <<dashVars, steps, appliedFor, calc>>

StoreInsertFailed(c, why) ==
    /\ InsertFailed(c, why)
    /\ last' = OpWho("InsertFailed", c)
    /\ UNCHANGED <<dashVars, steps, appliedFor, written, calc>>

\* Saves run one after the other
SeqNext ==
    \/ \E c \in Savers, es \in SaveInputs : SeqSaveCall(c, es)
    \/ \E c \in Savers : StoreDeleteFailed(c)
    \/ \E c \in Savers : StoreDeleteDone(c)
    \/ \E c \in Savers : StoreInsertDone(c)
    \/ \E c \in Savers, why \in InsertErrors : StoreInsertFailed(c, why)

SpecSeq == StoreInit /\ [][SeqNext]_vars

\* Saves of the two callers interleave their delete and insert steps
RaceNext ==
    \/ \E c \in Savers, es \in SaveInputs : StoreSaveCall(c, es)
    \/ \E c \in Savers : StoreDeleteFailed(c)
    \/ \E c \in Savers : StoreDeleteDone(c)
    \/ \E c \in Savers : StoreInsertDone(c)
    \/ \E c \in Savers, why \in InsertErrors : StoreInsertFailed(c, why)

SpecRace == StoreInit /\ [][RaceNext]_vars

-----------------------------------------------------------------------------
(* The analytics page over stores of three users *)

Row(u, y, w, p, h, pct) ==
    [user_id |-> u, year |-> y, week_number |-> w, project_id |-> p,
     hours |-> h, percentage |-> pct]

\* Rows the timesheets table may hold: two teams on the same project in
\* the same week, week 1 of two years, a leave row, a row of a project
\* that left the catalog, and rows of projects an admin added
AnalyticsRows ==
    {Row("u1", 2025, 1, "new_dagger", 16000, 50),
     Row("u1", 2025, 1, "vacation", 8000, 0),
     Row("u2", 2025, 1, "new_dagger", 40000, 100),
     Row("u1", 2024, 1, "new_dagger", 20000, 50),
     Row("u2", 2025, 2, "retired", 8000, 20),
     Row("u1", 2025, 2, "support", 10000, 25),
     Row("u3", 2025, 1, "week", 1000, 5),
     Row("u2", 2024, 52, "project_mgmt", 5000, 15)}

\* The projects table: as seeded, or with a project an admin added through
\* AdminProjectManager, whose id is its name in lower case ("Support",
\* "Week")
AnalyticsCatalogs ==
    {DefaultCatalog,
     [p \in DOMAIN DefaultCatalog \cup {"support"} |->
        IF p = "support" THEN "R&D Support" ELSE DefaultCatalog[p]],
     [p \in DOMAIN DefaultCatalog \cup {"week"} |->
        IF p = "week" THEN "R&D" ELSE DefaultCatalog[p]]}

\* The selections the page allows: (role, scope, selectedTeamId,
\* selectedUserId)
AnalyticsSelections ==
    {<<"admin", "department", "", "">>,
     <<"admin", "team", "t_npd", "">>,
     <<"admin", "team", "t_project", "">>,
     <<"admin", "user", "t_npd", "u1">>,
     <<"manager", "team", "t_npd", "">>,
     <<"manager", "user", "t_npd", "u3">>}

\* The weeks the missing-submission report is stepped to
ReportWeeks == {<<2025, 1>>, <<2025, 2>>, <<2024, 52>>}

AnalyticsInit ==
    /\ db \in SUBSET AnalyticsRows
    /\ analytics \in {[NoReport EXCEPT !.catalog = c] : c \in AnalyticsCatalogs}
    /\ save = [c \in Savers |-> IdleSave]
    /\ today = Today
    /\ ahead = 0
    /\ admin = AdminClosed
    /\ bound = [steps |-> MaxSteps, inFlight |-> MaxInFlight, weeks |-> Weeks]
    /\ year = Today.year
    /\ week = Today.week
    /\ preferredProjects = {}
    /\ entries = EmptyEntries
    /\ weeklyHoursTarget = 40000
    /\ saveStatus = "idle"
    /\ isLoading = FALSE
    /\ hasSubmittedData = FALSE
    /\ prefilledFromPrev = FALSE
    /\ localHours = [set |-> FALSE, value |-> 0]
    /\ loads = <<>>
    /\ timers = 0
    /\ last = Op("mount")
    /\ steps = 0
    /\ appliedFor = <<0, 0>>
    /\ written = {}
    /\ calc = NoCalc

\* fetchData: getAnalyticsData(scope, targetId), then setData
FetchData(sel, pts) ==
    LET targetId == IF sel[2] = "user" THEN sel[4] ELSE sel[3]
    IN  /\ analytics.op = "none"
        /\ pts \in AnalyticsResults(db, analytics.catalog, sel[2], targetId)
        /\ analytics' = [analytics EXCEPT
                           !.op = "getAnalyticsData", !.role = sel[1],
                           !.scope = sel[2], !.team = sel[3],
                           !.target = targetId, !.points = pts]
        /\ UNCHANGED <<storeVars, dashState, today, ahead, bound, admin,
                       last, steps, written, calc>>

\* fetchSubmitted, then the render that derives missingUsers
MissingReport(sel, yw) ==
    LET ids == GetSubmittedUserIds(db, yw[1], yw[2])
    IN  /\ analytics.op = "none"
        /\ analytics' = [analytics EXCEPT
                           !.op = "missingUsers", !.role = sel[1],
                           !.scope = sel[2], !.team = sel[3],
                           !.target = IF sel[2] = "user" THEN sel[4]
                                      ELSE sel[3],
                           !.key = yw, !.submitted = ids,
                           !.missing = MissingUsers(sel[1], sel[3], ids)]
        /\ UNCHANGED <<storeVars, dashState, today, ahead, bound, admin,
                       last, steps, written, calc>>

\* The allow-lists downloadCSV hands over: the weeks of the filtered chart
\* data, none when the selected time range holds no data point
AllowLists == SUBSET {<<2025, 1>>, <<2025, 2>>, <<2024, 1>>}

\* downloadCSV: generateDetailedCsv(scope, targetId, activeWeeks)
DownloadCsv(sel, activeWeeks) ==
    LET targetId == IF sel[2] = "user" THEN sel[4] ELSE sel[3]
    IN  /\ analytics.op = "none"
        /\ analytics' = [analytics EXCEPT
                           !.op = "generateDetailedCsv", !.role = sel[1],
                           !.scope = sel[2], !.team = sel[3],
                           !.target = targetId,
                           !.activeWeeks = activeWeeks,
                           !.csv = CsvTotals(db, analytics.catalog, sel[2],
                                             targetId, activeWeeks)]
        /\ UNCHANGED <<storeVars, dashState, today, ahead, bound, admin,
                       last, steps, written, calc>>

AnalyticsNext ==
    \/ \E sel \in AnalyticsSelections, aw \in AllowLists :
         DownloadCsv(sel, aw)
    \/ \E sel \in AnalyticsSelections :
         \E pts \in AnalyticsResults(db, analytics.catalog, sel[2],
                                     IF sel[2] = "user" THEN sel[4]
                                     ELSE sel[3]) : FetchData(sel, pts)
    \/ \E sel \in AnalyticsSelections, yw \in ReportWeeks :
         MissingReport(sel, yw)

SpecAnalytics == AnalyticsInit /\ [][AnalyticsNext]_vars

-----------------------------------------------------------------------------
(* The store under saves of the weeks the dashboard produces *)

\* The owner saves entry sets computed under capacities of 40 h, 37.5 h and
\* 8 h, one save after the other
RoundTripNext ==
    \/ \E es \in OwnerSavedWeeks : SeqSaveCall("owner", es)
    \/ StoreDeleteFailed("owner")
    \/ StoreDeleteDone("owner")
    \/ StoreInsertDone("owner")
    \/ \E why \in InsertErrors : StoreInsertFailed("owner", why)

SpecRoundTrip == StoreInit /\ [][RoundTripNext]_vars

-----------------------------------------------------------------------------
(* The available-work-hours computations of the two editors as functions *)

CalcEntrySets ==
    LET leave(h) == [percentage |-> 0, days |-> h \div 8, hours |-> h]
    IN  {[p \in (IF hasV THEN {"vacation"} ELSE {})
                \cup (IF hasS THEN {"sick"} ELSE {})
                \cup (IF hasW THEN {"new_dagger"} ELSE {}) |->
            IF p = "vacation" THEN leave(v)
            ELSE IF p = "sick" THEN leave(k)
            ELSE [percentage |-> 50, days |-> 0, hours |-> 16000]] :
         hasV \in BOOLEAN, v \in {0, 4000, 8000, 40000},
         hasS \in BOOLEAN, k \in {0, 8000, 16000}, hasW \in BOOLEAN}

CalcCapacities == {0, 8000, 37500, 40000}

Compute(es, target) ==
    /\ ~calc.done
    /\ calc' = [done |-> TRUE, es |-> es, target |-> target,
                dashboard |-> calculateAvailableWorkHours(es, target),
                admin |-> AdminAvailableWorkHours(es, target)]
    /\ UNCHANGED <<storeVars, dashVars, last, steps, appliedFor, written>>

CalcNext == \E es \in CalcEntrySets, t \in CalcCapacities : Compute(es, t)

SpecCalc == StoreInit /\ [][CalcNext]_vars

-----------------------------------------------------------------------------
(* Properties of the store *)

\* The projects of an entry set that hold hours or a percentage
NonZeroProjects(es) ==
    {p \in DOMAIN es : es[p].hours > 0 \/ es[p].percentage > 0}

\* The rows the table holds for entry set es saved under key k: one row
\* per non-zero entry, its hours as DECIMAL(5,2)
ExpectedRows(k, es) ==
    {[user_id |-> k.user_id, year |-> k.year, week_number |-> k.week_number,
      project_id |-> p, percentage |-> es[p].percentage,
      hours |-> ((es[p].hours + 5) \div 10) * 10] : p \in NonZeroProjects(es)}

\* C1: when a saveTimesheet call has just returned success, the rows of its
\* key are exactly one row per entry with hours > 0 or percentage > 0 (with
\* that entry's percentage and hours); no row belongs to an entry with
\* percentage 0 and hours 0; and a call whose entries are all zero returns
\* success as soon as its delete succeeds, leaving no row under the key.
C1_SavedRowsAreTheNonZeroEntries ==
    LET s == save[last.who]
        R == RowsOf(db, s.key)
    IN  /\ (last.op \in {"DeleteDone", "InsertDone"} /\ s.pc = "done"
            /\ s.result.success)
           => /\ R = ExpectedRows(s.key, s.entries)
              /\ Cardinality(R) = Cardinality(NonZeroProjects(s.entries))
              /\ \A r \in R : ~(s.entries[r.project_id].hours = 0
                                /\ s.entries[r.project_id].percentage = 0)
        /\ (last.op = "DeleteDone" /\ NonZeroProjects(s.entries) = {})
           => (s.pc = "done" /\ s.result.success /\ R = {})

\* A save of a set with a zeroed entry beside non-zero ones has succeeded
\* over a week that held rows
C1_Witness ==
    LET s == save[last.who]
    IN  /\ last.op = "InsertDone"
        /\ s.result.success
        /\ s.before # {}
        /\ \E p \in DOMAIN s.entries : p \notin NonZeroProjects(s.entries)
        /\ Cardinality(RowsOf(db, s.key)) = 2

\* Caller c saves, right after a successful save of caller d, the entry
\* set d saved, under the same key: c's call found the rows d's save left
SavedAgain(c, d) ==
    /\ c # d
    /\ save[d].pc = "done"
    /\ save[d].result.success
    /\ save[c].pc # "idle"
    /\ save[c].key = save[d].key
    /\ save[c].entries = save[d].entries
    /\ save[c].before = ExpectedRows(save[d].key, save[d].entries)

\* C14: when the entry set of a successful save is saved again under the
\* same key, the second insert meets no duplicate key, and once the second
\* save has returned success the key holds the rows the first save left,
\* each project once.
C14_SavingTwiceIsSavingOnce ==
    \A c, d \in Savers :
        SavedAgain(c, d) =>
            LET R == RowsOf(db, save[c].key)
                new == {Stored(r) : r \in RowsToInsert(save[c].key,
                                                       save[c].entries)}
            IN  /\ save[c].pc = "insert" => ~UniqueViolation(db, new)
                /\ (save[c].pc = "done" /\ save[c].result.success)
                   => /\ R = save[c].before
                      /\ \A r1, r2 \in R :
                            r1.project_id = r2.project_id => r1 = r2

\* The second save of a set with rows to insert has returned success
C14_Witness ==
    \E c, d \in Savers :
        /\ SavedAgain(c, d)
        /\ last.who = c
        /\ last.op = "InsertDone"
        /\ save[c].result.success
        /\ Cardinality(save[c].before) = 2

\* C5: a saveTimesheet call whose delete failed has returned a failure with
\* a message and never attempts its insert, and when the delete has just
\* failed the rows of the key are the rows the key had when the call began.
C5_DeleteFailureAborts ==
    /\ \A c \in Savers :
         save[c].afterDelete = "failed"
         => /\ save[c].pc = "done"
            /\ ~save[c].inserted
            /\ ~save[c].result.success
            /\ save[c].result.error # "none"
    /\ last.op = "DeleteFailed"
       => /\ save[last.who].afterDelete = "failed"
          /\ RowsOf(db, save[last.who].key) = save[last.who].before

\* The delete of a save with rows to insert has failed over a week with rows
C5_Witness ==
    /\ last.op = "DeleteFailed"
    /\ save[last.who].before # {}
    /\ NonZeroProjects(save[last.who].entries) # {}
    /\ RowsOf(db, save[last.who].key) = save[last.who].before

\* C21: when the insert of a saveTimesheet call has just failed after its
\* delete succeeded, the call has returned a failure that carries the
\* store's message, and the key holds no row: the rows it held when the
\* call began are not put back.
C21_InsertFailureLeavesTheWeekEmpty ==
    last.op = "InsertFailed"
    => LET s == save[last.who]
       IN  /\ s.pc = "done"
           /\ s.afterDelete = "ok"
           /\ ~s.result.success
           /\ s.result.error \in InsertErrors
           /\ RowsOf(db, s.key) = {}

\* The insert of a save over a week that held rows has failed
C21_Witness ==
    /\ last.op = "InsertFailed"
    /\ save[last.who].before # {}
    /\ ~save[last.who].result.success
    /\ RowsOf(db, save[last.who].key) = {}

\* C22: whatever steps the saves of (user, year, week) have taken, the
\* rows of every other user, year or week are the rows the store began
\* with.
C22_SaveLeavesOtherKeysAlone ==
    {r \in db : RowKey(r) # SaveKey} = OtherRows

\* One save of the week has succeeded and another has failed at its
\* insert; the week's rows changed, the rows of the other user and of the
\* other week are in place
C22_Witness ==
    /\ \E c, d \in Savers :
          /\ save[c].pc = "done" /\ save[c].result.success
          /\ save[c].inserted
          /\ save[d].pc = "done" /\ ~save[d].result.success
          /\ save[d].afterDelete = "ok"
    /\ \E r \in db : r.user_id = "u2"
    /\ \E r \in db : r.user_id = Owner /\ r.year = 2024

\* C27: whatever saves of the owner and of an admin have run, one after
\* the other or interleaved, no two rows of the store share user, year,
\* week and project.
C27_OneRowPerProjectAndWeek ==
    \A r1, r2 \in db :
        (RowKey(r1) = RowKey(r2) /\ r1.project_id = r2.project_id)
            => r1 = r2

\* Two interleaved saves have both deleted; one has inserted and the
\* insert of the other has been rejected as a duplicate
C27_Witness ==
    /\ last.op = "InsertFailed"
    /\ save[last.who].result.error = "duplicate key"
    /\ \E d \in Savers \ {last.who} :
          save[d].inserted /\ save[d].result.success
    /\ RowsOf(db, SaveKey) # {}

\* What a reader expects back from a saved entry set: its non-zero
\* entries, with days = hours / 8 for a leave entry and 0 for the others
SavedEntriesRead(es) ==
    [p \in NonZeroProjects(es) |->
        [percentage |-> es[p].percentage,
         hours |-> es[p].hours,
         days |-> IF IsLeave(p) THEN es[p].hours \div 8 ELSE 0]]

SavedEntriesReadRounded(es) ==
    [p \in NonZeroProjects(es) |->
        LET stored == ((es[p].hours + 5) \div 10) * 10
        IN  [percentage |-> es[p].percentage,
             hours |-> stored,
             days |-> IF IsLeave(p) THEN stored \div 8 ELSE 0]]

ProjectsOf(R) == {r.project_id : r \in R}

\* Both callers have completed a successful save of the same key
BothSaved ==
    /\ \A c \in Savers : save[c].pc = "done" /\ save[c].result.success
    /\ save["owner"].key = save["admin"].key

\* C6 as stated: once both saves have completed, the rows of the week are
\* exactly the insert set of one of the two saves, and before that a reader
\* sees the rows the week began with, one complete insert set, or the empty
\* week.
C6_LastInsertWins ==
    LET R == RowsOf(db, SaveKey)
        Ia == ExpectedRows(SaveKey, save["owner"].entries)
        Ib == ExpectedRows(SaveKey, save["admin"].entries)
    IN  /\ BothSaved => R \in {Ia, Ib}
        /\ R \in {{}, SeedStore({<<2025, 1>>})} \cup written

\* C6 as the store behaves: once both saves have completed, the rows of the
\* week are the insert set of one save, or the union of both insert sets
\* when these share no project; a reader sees the rows the week began with,
\* the empty week, one insert set, or the union of two insert sets that
\* share no project; and an insert over rows of one of its projects fails,
\* leaving the rows of the earlier insert in place.
C6_InsertsAccumulate ==
    LET R == RowsOf(db, SaveKey)
        Ia == ExpectedRows(SaveKey, save["owner"].entries)
        Ib == ExpectedRows(SaveKey, save["admin"].entries)
        disjoint(X, Y) == ProjectsOf(X) \cap ProjectsOf(Y) = {}
    IN  /\ BothSaved => \/ R \in {Ia, Ib}
                        \/ R = Ia \cup Ib /\ disjoint(Ia, Ib)
        /\ \/ R \in {{}, SeedStore({<<2025, 1>>})} \cup written
           \/ \E X, Y \in written : disjoint(X, Y) /\ R = X \cup Y
        /\ Cardinality(R) = Cardinality(ProjectsOf(R))
        /\ (last.op = "InsertFailed"
            /\ save[last.who].result.error = "duplicate key")
           => /\ ProjectsOf(R)
                   \cap NonZeroProjects(save[last.who].entries) # {}
              /\ R \in written

\* Both saves have succeeded and the week holds the rows of both
C6_Witness ==
    LET R == RowsOf(db, SaveKey)
        Ia == ExpectedRows(SaveKey, save["owner"].entries)
        Ib == ExpectedRows(SaveKey, save["admin"].entries)
    IN  /\ BothSaved
        /\ last.op = "InsertDone"
        /\ Ia # {} /\ Ib # {}
        /\ R = Ia \cup Ib
        /\ R # Ia /\ R # Ib

-----------------------------------------------------------------------------
(* Properties of the available-work-hours computations *)

\* The hours of leave project lp in entry set es; none when it has no entry
LeaveOf(es, lp) == IF lp \in DOMAIN es THEN es[lp].hours ELSE 0

\* C3: for capacity C and leave entries of L hours in total, the dashboard's
\* and the admin editor's available work hours both equal C - L when that is
\* positive and 0 otherwise; neither is negative, and both are 0 when
\* L >= C.
C3_AvailableIsCapacityLessLeave ==
    LET C == calc.target
        L == LeaveOf(calc.es, "vacation") + LeaveOf(calc.es, "sick")
        expected == IF C - L > 0 THEN C - L ELSE 0
    IN  calc.done
        => /\ C >= 0 /\ L >= 0
           /\ calc.dashboard = expected
           /\ calc.admin = expected
           /\ calc.dashboard >= 0 /\ calc.admin >= 0
           /\ L >= C => (calc.dashboard = 0 /\ calc.admin = 0)

\* Leave in two leave entries exceeds a positive capacity
C3_Witness ==
    /\ calc.done
    /\ LeaveOf(calc.es, "vacation") > 0
    /\ LeaveOf(calc.es, "sick") > 0
    /\ LeaveOf(calc.es, "vacation") + LeaveOf(calc.es, "sick") > calc.target
    /\ calc.target > 0
    /\ calc.dashboard = 0
    /\ calc.admin = 0

-----------------------------------------------------------------------------
(* Properties of the dashboard *)

\* capacity less the hours of the leave entries of es, floored at 0
WorkHoursLeft(es, capacity) ==
    LET L == LeaveOf(es, "vacation") + LeaveOf(es, "sick")
    IN  IF capacity - L > 0 THEN capacity - L ELSE 0

\* The percentages of all non-leave entries of es, summed
WorkPercentage(es) ==
    SumPercentage({[p |-> p, percentage |-> es[p].percentage] :
                     p \in {q \in DOMAIN es : q \notin LEAVE_PROJECTS}})

\* C2: when handleLeaveChange has just run, every non-leave entry of the
\* entry set has hours = (percentage / 100) x max(0, capacity - leave hours)
\* for the new leave hours, and every entry has the percentage it had
\* before.
C2_LeaveChangeRederivesEveryWorkEntry ==
    last.op = "handleLeaveChange"
    => /\ \A p \in DOMAIN entries :
            p \notin LEAVE_PROJECTS
            => entries[p].hours * 100 =
                 entries[p].percentage
                   * WorkHoursLeft(entries, weeklyHoursTarget)
       /\ \A p \in DOMAIN last.before :
            /\ p \in DOMAIN entries
            /\ entries[p].percentage = last.before[p].percentage

\* C19: in every state of the dashboard each non-leave entry has
\* hours = (percentage / 100) x max(0, capacity - leave hours) for the
\* capacity shown and the leave entries held; in particular so when
\* handleTotalHoursChange has just run.
C19_WorkHoursFollowCapacityAndLeave ==
    \A p \in DOMAIN entries :
        p \notin LEAVE_PROJECTS
        => entries[p].hours * 100 =
             entries[p].percentage * WorkHoursLeft(entries, weeklyHoursTarget)

\* C25: the dashboard shows the status 'saved' only for a saveTimesheet
\* call that returned success; when the owner's save has just failed, at
\* its delete or at its insert, the status is not 'saved'.
C25_SavedOnlyAfterSuccess ==
    /\ saveStatus = "saved" => save["owner"].result.success
    /\ (last.op \in {"DeleteFailed", "InsertFailed"} /\ last.who = "owner")
       => saveStatus # "saved"

\* C4: a load that has just been applied was issued for the selected week,
\* and when no load is pending the entry set is the one loaded for the
\* selected week.
C4_StaleLoadsAreDiscarded ==
    /\ last.op \in {"LoadCaseA", "LoadCaseB", "LoadCaseC"}
       => <<last.load.year, last.load.week>> = <<year, week>>
    /\ Len(loads) = 0 => appliedFor = <<year, week>>

\* C7: when the preferred projects have just changed, the entry set has
\* the entries it had plus a zeroed entry for each newly preferred project;
\* and in every state no non-leave entry of a project that is not preferred
\* holds a percentage or hours.
C7_NoHiddenNonZeroEntry ==
    /\ last.op = "UpdatePreferred"
       => /\ DOMAIN entries = DOMAIN last.before \cup preferredProjects
          /\ \A p \in preferredProjects \ DOMAIN last.before :
               entries[p] = ZeroEntry
    /\ \A p \in DOMAIN entries :
         (p \notin LEAVE_PROJECTS /\ p \notin preferredProjects)
         => (entries[p].percentage = 0 /\ entries[p].hours = 0)

\* C8: when handleSave has just handed an entry set to saveTimesheet,
\* either no work hours are available or the percentages of all non-leave
\* entries of that set sum to 100.
C8_SaveNeedsFullAllocation ==
    last.op = "handleSave"
    => \/ WorkHoursLeft(save["owner"].entries, weeklyHoursTarget) = 0
       \/ WorkPercentage(save["owner"].entries) = 100

\* The week before (y, w)
PriorWeek(y, w) == IF w = 1 THEN <<y - 1, 52>> ELSE <<y, w - 1>>

\* C9: a load reads the rows of the prior week (week - 1, or week 52 of
\* the year before for week 1) only after finding no rows for its own week;
\* and when carry-forward has just been applied, every non-leave entry of
\* the prior week is in the entry set with its percentage and with
\* hours = (percentage / 100) x the capacity the load read, and every leave
\* entry of the entry set has 0 days and 0 hours.
C9_CarryForwardCopiesPercentages ==
    LET l == last.load
        pw == PriorWeek(l.year, l.week)
        rows == {r \in db : r.user_id = Owner /\ r.year = pw[1]
                            /\ r.week_number = pw[2]}
    IN  /\ last.op = "LoadFetchPrev"
           => /\ DOMAIN l.dbEntries = {}
              /\ DOMAIN l.prevEntries = {r.project_id : r \in rows}
              /\ \A r \in rows :
                   l.prevEntries[r.project_id].percentage = r.percentage
        /\ last.op = "LoadFetchCurrent"
           => /\ l.currentHoursTarget = weeklyHoursTarget
              /\ l.currentHoursTarget =
                   (IF localHours.set THEN localHours.value ELSE 40000)
        /\ last.op = "LoadCaseB"
           => /\ DOMAIN l.dbEntries = {}
              /\ DOMAIN l.prevEntries # {}
              /\ \A p \in DOMAIN l.prevEntries :
                   p \notin LEAVE_PROJECTS
                   => /\ p \in DOMAIN entries
                      /\ entries[p].percentage = l.prevEntries[p].percentage
                      /\ entries[p].hours * 100 =
                           l.prevEntries[p].percentage * l.currentHoursTarget
              /\ \A p \in DOMAIN entries :
                   p \in LEAVE_PROJECTS
                   => (entries[p].days = 0 /\ entries[p].hours = 0)

\* Carry-forward into week 1 from week 52 of the year before, which held
\* work percentages and leave, under a capacity of 8 h
C9_Witness ==
    /\ last.op = "LoadCaseB"
    /\ last.load.week = 1
    /\ last.load.currentHoursTarget = 8000
    /\ "vacation" \in DOMAIN last.load.prevEntries
    /\ last.load.prevEntries["vacation"].hours > 0
    /\ "project_mgmt" \in DOMAIN entries
    /\ entries["project_mgmt"].percentage = 50
    /\ entries["project_mgmt"].hours = 4000
    /\ last.load.prevEntries["project_mgmt"].hours = 16000

\* C10: when carry-forward has just been applied the week is marked not
\* submitted, and if the owner has called no save the week of the load has
\* no rows and the owner is not among its submitted users; and only the
\* delete and the insert of a save change the rows of the table.
C10_CarryForwardIsNotSubmitted ==
    /\ [](last.op = "LoadCaseB"
          => /\ ~hasSubmittedData
             /\ save["owner"].pc = "idle"
                => /\ {r \in db : r.user_id = Owner
                                  /\ r.year = last.load.year
                                  /\ r.week_number = last.load.week} = {}
                   /\ Owner \notin GetSubmittedUserIds(db, last.load.year,
                                                       last.load.week))
    /\ [][db' # db => last'.op \in {"DeleteDone", "InsertDone"}]_vars

\* Carry-forward has pre-filled a week that has no rows and no save
C10_Witness ==
    /\ last.op = "LoadCaseB"
    /\ save["owner"].pc = "idle"
    /\ prefilledFromPrev
    /\ ~hasSubmittedData
    /\ \E p \in DOMAIN entries : entries[p].percentage > 0
    /\ RowsOf(db, Key(Owner, last.load.year, last.load.week)) = {}

-----------------------------------------------------------------------------
(* Properties of the future lock *)

\* C11: the selected week, reached from the current week by the week
\* selector, is future-locked exactly when it is three or more steps ahead
\* of the current week; the weeks behind, the current week and the weeks
\* one and two steps ahead are not locked.
C11_LockedFromThreeWeeksAhead ==
    /\ isFutureLocked <=> ahead >= 3
    /\ ahead <= 2 => ~isWorkLocked

\* Every work entry keeps its percentage in the step
WorkPercentagesKept ==
    \A p \in DOMAIN entries :
        p \notin LEAVE_PROJECTS
        => (p \in DOMAIN entries'
            /\ entries'[p].percentage = entries[p].percentage)

\* The steps that replace the entry set by a loaded one
LoadApplications == {"LoadCaseA", "LoadCaseB", "LoadCaseC"}

C28_LockedWeekIsNeverSaved ==
    /\ [][isFutureLocked => last'.op # "handleSave"]_vars
    /\ [](save["owner"].pc # "idle"
          => ~(save["owner"].key.year * 52 + save["owner"].key.week_number
                 > today.year * 52 + today.week + 2))
    /\ [][isFutureLocked
          => RowsOf(db', Key(Owner, year, week))
               = RowsOf(db, Key(Owner, year, week))]_vars

\* In a locked week that has persisted rows the owner has just changed the
\* vacation days; the entries differ from the persisted ones and Save is
\* disabled
C28_Witness ==
    /\ isFutureLocked
    /\ last.op = "handleLeaveChange"
    /\ SaveDisabled
    /\ RowsOf(db, Key(Owner, year, week)) # {}
    /\ appliedFor = <<year, week>>
    /\ entries # GetTimesheet(db, Key(Owner, year, week))

-----------------------------------------------------------------------------
(* Claims about the two editors together *)

LeaveEntriesConsistent(es) ==
    \A p \in DOMAIN es :
        IsLeave(p) => /\ es[p].hours = es[p].days * 8
                      /\ es[p].percentage = 0

\* C13: in every state of the dashboard and of the admin editor, a leave
\* entry's hours are its days times 8, and a leave entry carries no
\* percentage that an hours computation could use.
C13_LeaveHoursAreDaysTimesEight ==
    /\ LeaveEntriesConsistent(entries)
    /\ LeaveEntriesConsistent(admin.entries)

\* The dashboard shows a day of vacation read from the store while the
\* admin has just typed half a day into a leave row.
C13_Witness ==
    /\ last.op = "AdminEntryChange"
    /\ \E p \in DOMAIN admin.entries :
            IsLeave(p) /\ admin.entries[p].days = 500
                       /\ admin.entries[p].hours = 4000
    /\ "vacation" \in DOMAIN entries
    /\ entries["vacation"].days = 1000
    /\ entries["vacation"].hours = 8000

-----------------------------------------------------------------------------
(* Claims about the analytics page *)

\* The rows the last getAnalyticsData call aggregated
ReportRows == ScopedRows(db, analytics.scope, analytics.target)

\* The (year, week) a data point was made for, read back from its name
KeyOfPoint(pt) ==
    CHOOSE k \in WeekKeys(ReportRows) : <<k[2], k[1] % 100>> = pt["name"]

\* C15: the result of getAnalyticsData holds one data point per distinct
\* (year, week) of the scoped rows, carrying that year and that week, and
\* the sequence is strictly ascending by (year, then week).
C15_OnePointPerWeekAscending ==
    analytics.op = "getAnalyticsData" =>
        LET pts == analytics.points
            keys == WeekKeys(ReportRows)
        IN  /\ Len(pts) = Cardinality(keys)
            /\ \A k \in keys :
                 \E i \in 1..Len(pts) :
                    pts[i]["year"] = k[1] * 1000 /\ pts[i]["week"] = k[2] * 1000
            /\ \A i, j \in 1..Len(pts) :
                 i < j => \/ pts[i]["year"] < pts[j]["year"]
                          \/ /\ pts[i]["year"] = pts[j]["year"]
                             /\ pts[i]["week"] < pts[j]["week"]

\* C16: in every data point the four category totals add up to the hours
\* of the week's rows whose project resolves, each resolved project's
\* bucket holds the hours of its rows, and a project that does not resolve
\* has no bucket.
C16_CategoryTotalsAreTheResolvedHours ==
    analytics.op = "getAnalyticsData" =>
        \A i \in 1..Len(analytics.points) :
            LET pt == analytics.points[i]
                k == KeyOfPoint(pt)
                all == AllProjects(analytics.catalog)
                rows == {r \in ReportRows : <<r.year, r.week_number>> = k}
                resolved == {r \in rows : r.project_id \in DOMAIN all}
            IN  /\ pt["rd"] + pt["support"] + pt["mfg"] + pt["leave"]
                     = SumHours(resolved)
                /\ \A r \in resolved :
                     pt[r.project_id]
                       = SumHours({x \in resolved :
                                     x.project_id = r.project_id})
                /\ \A r \in rows \ resolved :
                     r.project_id \in DOMAIN pt
                        => r.project_id \in {"name", "year", "week", "rd",
                                             "support", "mfg", "leave"}

\* C30: in every data point the name, the year and the week are those of
\* the point's (year, week), and each of the four category totals is the
\* hours of the week's resolved rows of that category: the per-project
\* accumulation alters none of them, whatever the project identifiers are.
C30_ProjectBucketsLeaveTheFixedFieldsAlone ==
    analytics.op = "getAnalyticsData" =>
        \A i \in 1..Len(analytics.points) :
            LET pt == analytics.points[i]
                k == KeyOfPoint(pt)
                all == AllProjects(analytics.catalog)
                resolved == {r \in ReportRows :
                               /\ <<r.year, r.week_number>> = k
                               /\ r.project_id \in DOMAIN all}
            IN  /\ pt["name"] = <<k[2], k[1] % 100>>
                /\ pt["year"] = k[1] * 1000
                /\ pt["week"] = k[2] * 1000
                /\ \A c \in {"rd", "support", "mfg", "leave"} :
                     pt[c] = SumHours({r \in resolved :
                                CategoryField(all[r.project_id]) = c})

\* The rows of users of team t
TeamRows(rows, t) ==
    {r \in rows : r.user_id \in DOMAIN TeamOf /\ TeamOf[r.user_id] = t}

\* C17: under scope = team with target T the result is one the rows of
\* T's users alone produce, and it is the same for every store that holds
\* the same rows of T's users, whatever rows of other teams it holds.
C17_TeamScopeIgnoresOtherTeams ==
    (analytics.op = "getAnalyticsData" /\ analytics.scope = "team"
     /\ analytics.target # "")
    => LET T == analytics.target
           own == TeamRows(db, T)
           others == AnalyticsRows \ TeamRows(AnalyticsRows, T)
           results(rows) == AnalyticsResults(rows, analytics.catalog,
                                             "team", T)
       IN  /\ analytics.points \in results(own)
           /\ \A X \in SUBSET others : results(own \cup X) = results(own)

\* Team t_npd is reported from a store where a user of another team logged
\* hours on the same project in the same week
C17_Witness ==
    /\ analytics.op = "getAnalyticsData"
    /\ analytics.scope = "team"
    /\ analytics.target = "t_npd"
    /\ Row("u1", 2025, 1, "new_dagger", 16000, 50) \in db
    /\ Row("u2", 2025, 1, "new_dagger", 40000, 100) \in db
    /\ \E i \in 1..Len(analytics.points) :
          /\ analytics.points[i]["name"] = <<1, 25>>
          /\ analytics.points[i]["new_dagger"] = 16000
          /\ analytics.points[i]["rd"] = 16000

\* The active users of the selected scope
ScopeActiveUsers ==
    LET activeUsers == {u \in DOMAIN StatusOf : StatusOf[u] = "active"}
    IN  CASE analytics.scope = "team" ->
               {u \in activeUsers : TeamOf[u] = analytics.team}
          [] analytics.scope = "user" -> activeUsers \cap {analytics.target}
          [] OTHER -> activeUsers

\* C18: the submitted set of a week is the set of users with at least one
\* row in that week, and the missing set is the active users of the scope
\* without the submitted ones.
C18_MissingIsScopeMinusSubmitted ==
    analytics.op = "missingUsers" =>
        /\ analytics.submitted
             = {u \in {"u1", "u2", "u3"} :
                  \E r \in db : /\ r.user_id = u
                                /\ r.year = analytics.key[1]
                                /\ r.week_number = analytics.key[2]}
        /\ analytics.missing = ScopeActiveUsers \ analytics.submitted

-----------------------------------------------------------------------------
(* Claims about failed reads *)

\* C20: a load whose read of the selected week failed is never applied as
\* a week without data: the dashboard neither carries the previous week
\* forward nor shows a blank week for it, and it does not go on to read
\* the previous week.
C20_FailedReadIsNotAnEmptyWeek ==
    last.op \in {"LoadFetchPrev", "LoadCaseB", "LoadCaseC"}
        => ~last.load.readFailed

-----------------------------------------------------------------------------
(* Claims about the detailed CSV report *)

\* C23: the totals of generateDetailedCsv are made of the rows whose
\* (year, week) is in the supplied allow-list only, whatever the size of
\* the list: each user's total and the global total are the hours of the
\* scoped, resolvable rows of the listed weeks.
C23_CsvCountsListedWeeksOnly ==
    analytics.op = "generateDetailedCsv" =>
        LET listed == {r \in ReportRows :
                         /\ <<r.year, r.week_number>> \in analytics.activeWeeks
                         /\ r.project_id
                              \in DOMAIN AllProjects(analytics.catalog)}
        IN  /\ analytics.csv.total = SumHours(listed)
            /\ \A u \in DOMAIN analytics.csv.users :
                 analytics.csv.users[u]
                   = SumHours({r \in listed : r.user_id = u})

-----------------------------------------------------------------------------
(* Claims about the admin editor *)

\* The rows of the week the admin editor is on that are not leave rows
AdminWorkRows ==
    {r \in RowsOf(db, Key(Owner, admin.year, admin.week)) :
        ~IsLeave(r.project_id)}

\* C24: when the admin editor has just loaded a week, its total capacity
\* is the whole number of hours nearest to (sum of work hours) / (sum of
\* work percentages / 100), halves rounded up, when both sums over the
\* week's persisted non-leave rows are positive, and 40 otherwise.
C24_CapacityIsInferredFromPersistedWork ==
    last.op = "AdminLoadData" =>
        LET H == SumHours(AdminWorkRows)
            P == SumPercentage(AdminWorkRows)
            n == admin.totalCapacity \div 1000
        IN  /\ admin.totalCapacity = n * 1000
            /\ IF H > 0 /\ P > 0
               THEN /\ (2 * n - 1) * 10 * P <= 2 * H
                    /\ 2 * H < (2 * n + 1) * 10 * P
               ELSE n = 40

\* A week saved under 37.5 h is loaded: 37.51 h of work at 100 % give 38
C24_Witness ==
    /\ last.op = "AdminLoadData"
    /\ SumHours(AdminWorkRows) = 37510
    /\ SumPercentage(AdminWorkRows) = 100
    /\ admin.totalCapacity = 38000

\* The entries getTimesheet returns for the week the admin editor is on
AdminPersisted == GetTimesheet(db, Key(Owner, admin.year, admin.week))

\* The admin has re-entered, right after a load, the value an entry had:
\* the change started from the loaded entries under the inferred capacity
\* and changed no percentage and no days
ReenteredAfterLoad ==
    /\ last.op = "AdminEntryChange"
    /\ last.before = AdminPersisted
    /\ admin.totalCapacity = InferredCapacity(AdminPersisted)
    /\ DOMAIN admin.entries = DOMAIN last.before
    /\ \A p \in DOMAIN admin.entries :
          /\ admin.entries[p].percentage = last.before[p].percentage
          /\ admin.entries[p].days = last.before[p].days

\* C26: when the admin re-enters, right after loading a week, the value an
\* entry already has, every entry keeps the hours the store holds for it.
C26_ReenteringAValueKeepsPersistedHours ==
    ReenteredAfterLoad
    => \A p \in DOMAIN admin.entries :
          admin.entries[p].hours = AdminPersisted[p].hours

====
